---- MODULE Spec2Model ----
(***************************************************************************)
(* A model of the stock-data scripts: the retrying fetch                   *)
(* (fetch_a_stock_data), the cleaning stage (clean_data), the indicator    *)
(* computation (plot_stock_data of the static script, get_stock_data of    *)
(* the interactive script) and the thread-pool batch                       *)
(* (batch_process_a_stocks).                                               *)
(*                                                                         *)
(* Numbers.  pandas holds every cell as a float.  A cell is modelled as an *)
(* exact fraction <<n, d>> in lowest terms with d >= 0: <<0, 0>> is NaN,   *)
(* <<1, 0>> is +inf, <<-1, 0>> is -inf.  Rounding of binary floats is not  *)
(* modelled: the inputs are small integers, on which the sums are exact.   *)
(***************************************************************************)
EXTENDS Integers, Sequences, FiniteSets, TLC

VARIABLES
    fetch,      \* the frame of one fetch_a_stock_data call (SpecFetch)
    series,     \* one single-threaded pipeline run over a series (SpecSeries)
    script,     \* which script the batch runs: "basic" or "static" (Spec)
    main,       \* the main thread inside batch_process_a_stocks (Spec)
    task,       \* per symbol: the future and its process_single_stock (Spec)
    log,        \* the records the batch wrote at the orchestration boundary
    plot,       \* per symbol: the frame of its plot_stock_data call (SpecPlot)
    pyplot      \* the state of matplotlib.pyplot, one per process (SpecPlot)

vars == <<fetch, series, script, main, task, log, plot, pyplot>>

----------------------------------------------------------------------------
(* Float cells as exact fractions *)

Abs(x) == IF x < 0 THEN -x ELSE x

Sign(x) == IF x > 0 THEN 1 ELSE IF x < 0 THEN -1 ELSE 0

RECURSIVE GCD(_, _)
GCD(a, b) == IF b = 0 THEN a ELSE GCD(b, a % b)

\* n/d as a float would hold it: x/0 is +-inf, 0/0 is NaN
Frac(n, d) ==
    IF d = 0 THEN <<Sign(n), 0>>
    ELSE LET g == GCD(Abs(n), Abs(d))
             s == Sign(d)
         IN  <<(s * n) \div g, (s * d) \div g>>

NaN == <<0, 0>>
Inf == <<1, 0>>
Num(i) == <<i, 1>>

IsNaN(x) == x = NaN
IsFinite(x) == x[2] > 0

\* x > 0 as numpy compares: False when x is NaN
Gt0(x) == x[1] > 0
\* x < 0 as numpy compares: False when x is NaN
Lt0(x) == x[1] < 0

FNeg(x) == <<-x[1], x[2]>>

FAdd(x, y) ==
    IF IsFinite(x) /\ IsFinite(y) THEN Frac(x[1] * y[2] + y[1] * x[2], x[2] * y[2])
    ELSE IF IsNaN(x) \/ IsNaN(y) THEN NaN
    ELSE IF IsFinite(x) THEN y
    ELSE IF IsFinite(y) THEN x
    ELSE IF x = y THEN x ELSE NaN

FSub(x, y) == FAdd(x, FNeg(y))

FDiv(x, y) ==
    IF IsNaN(x) \/ IsNaN(y) THEN NaN
    ELSE IF IsFinite(x) /\ IsFinite(y) THEN Frac(x[1] * y[2], x[2] * y[1])
    ELSE IF IsFinite(x) THEN Num(0)
    ELSE IF IsFinite(y) THEN <<x[1] * (IF y[1] < 0 THEN -1 ELSE 1), 0>>
    ELSE NaN

----------------------------------------------------------------------------
(* Data frames *)

\* a function's return value: None, or a frame of rows
None == [kind |-> "None", rows |-> <<>>]
DF(rows) == [kind |-> "df", rows |-> rows]

Last(s) == s[Len(s)]

IsNone(df) == df.kind = "None"
\* df.empty
IsEmpty(df) == Len(df.rows) = 0

----------------------------------------------------------------------------
(* fetch_a_stock_data *)

\* a provider row under the provider's column names (riqi = date, kaipan =
\* open, shoupan = close, zuigao = high, zuidi = low, chengjiaoliang = volume)
ProviderRow(d, o, c, h, l, v) ==
    [riqi |-> d, kaipan |-> o, shoupan |-> c, zuigao |-> h, zuidi |-> l,
     chengjiaoliang |-> v]

\* df.rename(columns=...) followed by set_index("Date"), row by row
RenameRow(r) ==
    [Date |-> r.riqi, Open |-> r.kaipan, Close |-> r.shoupan,
     High |-> r.zuigao, Low |-> r.zuidi, Volume |-> r.chengjiaoliang]

Rename(rows) == [i \in 1..Len(rows) |-> RenameRow(rows[i])]

\* what one call of ak.stock_zh_a_hist does: raise
\* (the exception carrying a description), or answer a table
Raise(msg) == [kind |-> "raise", rows |-> <<>>, msg |-> msg]
Table(rows) == [kind |-> "table", rows |-> rows, msg |-> ""]

\* symbol.split(".")[0], a symbol being the sequence of its dot-separated parts
SymbolClean(symbol) == symbol[1]

\* a log record: its level, what it reports, and the error text it quotes
Rec(level, event, msg) == [level |-> level, event |-> event, msg |-> msg]

\* the frame at the top of the function
FetchEntry(symbol, retries) ==
    [symbol |-> symbol, retries |-> retries, attempt |-> 0, calls |-> <<>>,
     sent |-> <<>>, log |-> <<>>, pc |-> "loop", ret |-> None]

\* the except branch, were the last failure re-raised instead of returned
FetchExceptReraises(f, g) ==
    IF f.attempt < f.retries - 1
    THEN [g EXCEPT !.log = Append(@, Rec("WARNING", "retry", "")),
                   !.attempt = @ + 1]
    ELSE [g EXCEPT !.log = Append(@, Rec("ERROR", "failed", Last(g.calls).msg)),
                   !.pc = "raised"]

\* the except branch, were the error logged without the exception's text
FetchExceptDropsText(f, g) ==
    IF f.attempt < f.retries - 1
    THEN [g EXCEPT !.log = Append(@, Rec("WARNING", "retry", "")),
                   !.attempt = @ + 1]
    ELSE [g EXCEPT !.log = Append(@, Rec("ERROR", "failed", "")),
                   !.pc = "returned", !.ret = None]

\* the except branch of one loop iteration (the handler catches Exception)
FetchExcept(f, g) ==
    IF f.attempt < f.retries - 1
    THEN [g EXCEPT !.log = Append(@, Rec("WARNING", "retry", "")),
                   !.attempt = @ + 1]
    ELSE [g EXCEPT !.log = Append(@, Rec("ERROR", "failed", Last(g.calls).msg)),
                   !.pc = "returned", !.ret = None]

\* the try body after the provider answered a table without rows
FetchEmptyRetries(f, g) ==
    [g EXCEPT !.log = Append(@, Rec("WARNING", "empty", "")),
              !.attempt = @ + 1]

FetchEmpty(f, g) ==
    [g EXCEPT !.log = Append(@, Rec("WARNING", "empty", "")),
              !.pc = "returned", !.ret = None]

\* the try body after the provider answered rows, were the return missing
FetchRowsNoReturn(f, g) ==
    [g EXCEPT !.log = Append(@, Rec("INFO", "success", "")),
              !.attempt = @ + 1,
              !.ret = DF(Rename(Last(g.calls).rows))]

FetchRows(f, g) ==
    [g EXCEPT !.log = Append(@, Rec("INFO", "success", "")),
              !.pc = "returned", !.ret = DF(Rename(Last(g.calls).rows))]

\* one iteration of the for loop: the provider call and what follows it
FetchAttempt(f, reply) ==
    LET g == [f EXCEPT !.calls = Append(@, reply),
                       !.sent = Append(@, SymbolClean(f.symbol))]
    IN  IF reply.kind = "raise" THEN FetchExcept(f, g)
        ELSE IF Len(reply.rows) = 0 THEN FetchEmpty(f, g)
        ELSE FetchRows(f, g)

\* range(retries) is exhausted without a return: the function ends, None
FetchFallThrough(f) == [f EXCEPT !.pc = "returned", !.ret = None]

\* the whole call, the provider answering replies[1], replies[2], ... in turn
RECURSIVE FetchRunFrom(_, _)
FetchRunFrom(f, replies) ==
    IF f.pc # "loop" THEN f
    ELSE IF f.attempt >= f.retries THEN FetchFallThrough(f)
    ELSE IF replies = <<>> THEN f
    ELSE FetchRunFrom(FetchAttempt(f, Head(replies)), Tail(replies))

----------------------------------------------------------------------------
(* clean_data *)

PriceColumns == <<"Open", "High", "Low", "Close">>

\* a row all of whose columns are missing (the date is the index, no column)
AllMissing(r) ==
    IsNaN(r.Open) /\ IsNaN(r.High) /\ IsNaN(r.Low) /\ IsNaN(r.Close)
    /\ IsNaN(r.Volume)

\* df.dropna(how="all")
DropAllMissing(rows) == SelectSeq(rows, LAMBDA r : ~AllMissing(r))

\* df_clean[df_clean["Volume"] > 0], were the test >= 0
VolumeFilterKeepsZero(rows) ==
    SelectSeq(rows, LAMBDA r : r.Volume[1] >= 0 /\ ~IsNaN(r.Volume))

\* df_clean[df_clean["Volume"] > 0]
VolumeFilter(rows) == SelectSeq(rows, LAMBDA r : Gt0(r.Volume))

\* df_clean[df_clean[col] > 0], were the test >= 0
ColumnFilterKeepsZero(rows, col) ==
    SelectSeq(rows, LAMBDA r : r[col][1] >= 0 /\ ~IsNaN(r[col]))

\* df_clean[df_clean[col] > 0]
ColumnFilter(rows, col) == SelectSeq(rows, LAMBDA r : Gt0(r[col]))

\* for col in price_columns: df_clean = df_clean[df_clean[col] > 0]
RECURSIVE PriceFilter(_, _)
PriceFilter(rows, cols) ==
    IF cols = <<>> THEN rows
    ELSE PriceFilter(ColumnFilter(rows, Head(cols)), Tail(cols))

\* the rows clean_data is left with before its last test
CleanRows(df) == PriceFilter(VolumeFilter(DropAllMissing(df.rows)), PriceColumns)

\* clean_data(df): the frame it returns, or None
clean_data(df) ==
    IF IsNone(df) \/ IsEmpty(df) THEN None
    ELSE IF CleanRows(df) = <<>> THEN None
    ELSE DF(CleanRows(df))

\* clean_data logs "empty after cleaning" exactly when its last test fires
CleanWarns(df) == ~(IsNone(df) \/ IsEmpty(df)) /\ CleanRows(df) = <<>>

----------------------------------------------------------------------------
(* The indicator columns *)

Column(rows, col) == [i \in 1..Len(rows) |-> rows[i][col]]

\* Series.rolling(n).mean() as pandas computes it: a window sum kept by adding
\* the entering value and removing the leaving one, NaN values not counted,
\* and a result only when n values are in the window (min_periods = n).
\* acc = [sum, nobs, out]
RECURSIVE RollFrom(_, _, _, _)
RollFrom(xs, n, i, acc) ==
    IF i > Len(xs) THEN acc.out
    ELSE LET added ==
                 IF IsNaN(xs[i]) THEN acc
                 ELSE [acc EXCEPT !.sum = FAdd(@, xs[i]), !.nobs = @ + 1]
             kept ==
                 IF i - n >= 1 /\ ~IsNaN(xs[i - n])
                 THEN [added EXCEPT !.sum = FSub(@, xs[i - n]), !.nobs = @ - 1]
                 ELSE added
             mean ==
                 IF kept.nobs >= n /\ kept.nobs > 0
                 THEN FDiv(kept.sum, Num(kept.nobs))
                 ELSE NaN
         IN  RollFrom(xs, n, i + 1, [kept EXCEPT !.out = Append(@, mean)])

\* rolling(n).mean() with the leaving value taken one bar late (window n + 1)
RollingMeanLate(xs, n) ==
    RollFrom(xs, n + 1, 1, [sum |-> Num(0), nobs |-> 0, out |-> <<>>])

RollingMean(xs, n) ==
    RollFrom(xs, n, 1, [sum |-> Num(0), nobs |-> 0, out |-> <<>>])

\* Series.diff()
Diff(xs) ==
    [i \in 1..Len(xs) |-> IF i = 1 THEN NaN ELSE FSub(xs[i], xs[i - 1])]

\* Series.pct_change()
PctChange(xs) ==
    [i \in 1..Len(xs) |->
        IF i = 1 THEN NaN ELSE FSub(FDiv(xs[i], xs[i - 1]), Num(1))]

\* delta.where(delta > 0, 0)
Gain(delta) ==
    [i \in 1..Len(delta) |-> IF Gt0(delta[i]) THEN delta[i] ELSE Num(0)]

\* -delta.where(delta < 0, 0)
Loss(delta) ==
    [i \in 1..Len(delta) |-> FNeg(IF Lt0(delta[i]) THEN delta[i] ELSE Num(0))]

\* 100 - (100 / (1 + rs)) with rs = avg_gain / avg_loss
RSIColumn(close) ==
    LET delta == Diff(close)
        avg_gain == RollingMean(Gain(delta), 14)
        avg_loss == RollingMean(Loss(delta), 14)
    IN  [i \in 1..Len(close) |->
            FSub(Num(100),
                 FDiv(Num(100), FAdd(Num(1), FDiv(avg_gain[i], avg_loss[i]))))]

\* Series.ewm(span, adjust=False).mean(), kept to whether the value is a
\* number: NaN until the first observation that is a number, a number from
\* then on (the weighted average is carried over missing observations).  The
\* values are not modelled: as exact fractions their denominators (13^t,
\* 27^t, 5^t) outgrow 32-bit integers within a few bars.
EwmIsNumber(isnum) ==
    [i \in 1..Len(isnum) |-> \E j \in 1..i : isnum[j]]

\* the derived columns both scripts compute, added to the rows
Indicators(rows) ==
    LET close  == Column(rows, "Close")
        ma5    == RollingMean(close, 5)
        ma10   == RollingMean(close, 10)
        ma20   == RollingMean(close, 20)
        isnum  == [i \in 1..Len(rows) |-> ~IsNaN(close[i])]
        exp12  == EwmIsNumber(isnum)
        exp26  == EwmIsNumber(isnum)
        macd   == [i \in 1..Len(rows) |-> exp12[i] /\ exp26[i]]
        signal == EwmIsNumber(macd)
        rsi    == RSIColumn(close)
    IN  [i \in 1..Len(rows) |->
            [Date |-> rows[i].Date, Open |-> rows[i].Open,
             High |-> rows[i].High, Low |-> rows[i].Low,
             Close |-> rows[i].Close, Volume |-> rows[i].Volume,
             MA5 |-> ma5[i], MA10 |-> ma10[i], MA20 |-> ma20[i],
             MACD |-> macd[i], Signal |-> signal[i],
             Hist |-> macd[i] /\ signal[i], RSI |-> rsi[i]]]

\* a row with a missing value in some column
HasNaN(r) ==
    \/ IsNaN(r.Open) \/ IsNaN(r.High) \/ IsNaN(r.Low) \/ IsNaN(r.Close)
    \/ IsNaN(r.Volume)
    \/ IsNaN(r.MA5) \/ IsNaN(r.MA10) \/ IsNaN(r.MA20)
    \/ ~r.MACD \/ ~r.Signal \/ ~r.Hist
    \/ IsNaN(r.RSI)

\* df.dropna()
DropNa(rows) == SelectSeq(rows, LAMBDA r : ~HasNaN(r))

----------------------------------------------------------------------------
(* The two indicator pipelines *)

\* plot_stock_data of the static script: the frame it draws.  The derived
\* columns are written into df itself and every row of df is drawn.
PlotFrame(df) ==
    IF IsNone(df) \/ IsEmpty(df) THEN None
    ELSE LET ind == Indicators(df.rows)
             ret == PctChange(Column(df.rows, "Close"))
         IN  DF([i \in 1..Len(ind) |-> ind[i] @@ [Return |-> ret[i]]])

\* get_stock_data, were its last line "return df"
GetStockDataUntrimmed(reply) ==
    IF reply.kind = "raise" THEN DF(<<>>)
    ELSE IF Len(reply.rows) = 0 THEN DF(<<>>)
    ELSE DF(Indicators(Rename(reply.rows)))

\* get_stock_data of the interactive script: the frame it returns
GetStockData(reply) ==
    IF reply.kind = "raise" THEN DF(<<>>)
    ELSE IF Len(reply.rows) = 0 THEN DF(<<>>)
    ELSE DF(DropNa(Indicators(Rename(reply.rows))))

\* save_to_csv: the rows written, none when there is nothing to save
SaveToCsv(df) == IF IsNone(df) \/ IsEmpty(df) THEN <<>> ELSE df.rows

----------------------------------------------------------------------------
(* Bounds and inputs *)

\* the largest retries argument tried (the default is 3)
MaxRetries == 3

\* the symbols tried: a bare code and a code with an exchange suffix
Symbols == {<<"600519">>, <<"300750", "SZ">>}

\* a bar of the given kind: "ok" is a valid bar, the others break one rule
Bar(date, close, kind) ==
    [Date   |-> date,
     Open   |-> IF kind \in {"allnan", "nanopen"} THEN NaN
                ELSE IF kind = "badopen" THEN Num(0) ELSE Num(close),
     High   |-> IF kind = "allnan" THEN NaN
                ELSE IF kind = "badhigh" THEN Num(-1) ELSE Num(close + 1),
     Low    |-> IF kind = "allnan" THEN NaN
                ELSE IF kind = "badlow" THEN Num(0) ELSE Num(close - 1),
     Close  |-> IF kind \in {"allnan", "nanclose"} THEN NaN
                ELSE IF kind = "badclose" THEN Num(-2) ELSE Num(close),
     Volume |-> IF kind \in {"allnan", "nanvol"} THEN NaN
                ELSE IF kind = "zerovol" THEN Num(0)
                ELSE IF kind = "negvol" THEN Num(-5) ELSE Num(100)]

\* the same bar as the provider answers it
ProviderBar(date, close, kind) ==
    LET b == Bar(date, close, kind)
    IN  ProviderRow(b.Date, b.Open, b.Close, b.High, b.Low, b.Volume)

\* the answers of the provider tried by the fetch: it raises one of two
\* errors, it answers no row, or it answers one of two different tables
ProviderReplies ==
    {Raise("timeout"), Raise("refused"), Table(<<>>),
     Table(<<ProviderBar(1, 10, "ok"), ProviderBar(2, 11, "ok")>>),
     Table(<<ProviderBar(1, 20, "ok"), ProviderBar(2, 21, "zerovol"),
             ProviderBar(3, 22, "ok")>>)}

\* the longest series of the bar patterns, and of the free-form series
MaxBars == 21
MaxRows == 3

Scenario == <<10, 11, 12, 11, 10, 9, 10, 11, 12, 13, 14, 15, 16, 17, 18>>

Patterns == {"const", "scenario", "up", "down", "zigzag"}

\* the close of bar i under a pattern
PatternClose(p, i) ==
    CASE p = "const" -> 10
      [] p = "scenario" -> IF i <= Len(Scenario) THEN Scenario[i] ELSE 3 + i
      [] p = "up" -> 10 + i
      [] p = "down" -> 40 - i
      [] p = "zigzag" -> 10 + 2 * (i % 3)

\* what can be wrong with one bar of a patterned series
DefectKinds == {"zerovol", "badclose", "allnan", "nanclose"}

\* n bars of a pattern on consecutive dates, bar k (if any) of the given kind
PatternSeries(p, n, k, kind) ==
    [i \in 1..n |-> Bar(i, PatternClose(p, i), IF i = k THEN kind ELSE "ok")]

\* the kinds of bar of a free-form series
RowKinds ==
    {"ok", "zerovol", "negvol", "badopen", "badhigh", "badlow", "badclose",
     "allnan", "nanvol"}

\* the dates of a free-form series of n rows: increasing, decreasing, or with
\* the first date repeated
DateOrders == {"inc", "dec", "dup"}

DateAt(order, n, i) ==
    CASE order = "inc" -> i
      [] order = "dec" -> n + 1 - i
      [] order = "dup" -> IF i = 1 THEN 1 ELSE i - 1

FreeSeries(kinds, order) ==
    [i \in 1..Len(kinds) |-> Bar(DateAt(order, Len(kinds), i), 10 + i, kinds[i])]

\* the rows as the provider would answer them
ToProvider(rows) ==
    [i \in 1..Len(rows) |->
        ProviderRow(rows[i].Date, rows[i].Open, rows[i].Close, rows[i].High,
                    rows[i].Low, rows[i].Volume)]

----------------------------------------------------------------------------
(* The states the other specifications leave a part of the model in *)

IdleFetch == [pc |-> "idle"]
IdleSeries == [pc |-> "idle"]
IdleMain == [pc |-> "idle"]
IdlePlot == [pc |-> "idle"]
IdlePyplot == [pc |-> "idle"]

----------------------------------------------------------------------------
(* SpecFetch: one call of fetch_a_stock_data(symbol, retries) *)

FetchInit ==
    /\ fetch \in {FetchEntry(sym, r) : sym \in Symbols, r \in 0..MaxRetries}
    /\ series = IdleSeries
    /\ script = "none"
    /\ main = IdleMain
    /\ task = <<>>
    /\ log = <<>>
    /\ plot = IdlePlot
    /\ pyplot = IdlePyplot

\* one pass of the loop body: the provider is called and answers
FetchCall ==
    /\ fetch.pc = "loop"
    /\ fetch.attempt < fetch.retries
    /\ \E reply \in ProviderReplies : fetch' = FetchAttempt(fetch, reply)
    /\ UNCHANGED <<plot, pyplot, series, script, main, task, log>>

\* the loop ends without a return
FetchEnd ==
    /\ fetch.pc = "loop"
    /\ fetch.attempt >= fetch.retries
    /\ fetch' = FetchFallThrough(fetch)
    /\ UNCHANGED <<plot, pyplot, series, script, main, task, log>>

FetchNext == FetchCall \/ FetchEnd

SpecFetch == FetchInit /\ [][FetchNext]_vars

----------------------------------------------------------------------------
(* Spec: batch_process_a_stocks.  The main thread submits one                *)
(* process_single_stock per symbol to a ThreadPoolExecutor, takes the       *)
(* futures as they complete, and leaves the with block, which joins the     *)
(* pool.  A task is a thread running fetch, clean, save, plot in turn; the  *)
(* fetch, with its retries, is one step of the task.  A sink may fail:      *)
(* save_to_csv raises (an OSError of to_csv), the chart stage fails (no     *)
(* usable font, savefig).  The chart stage is one step here, as it runs    *)
(* when no other chart stage overlaps it; SpecPlot has its pyplot calls.    *)

\* how many symbols the batch is given (a_stock_symbols lists three)
NumSymbols == 3

\* ThreadPoolExecutor(max_workers=5)
max_workers == 5

\* fetch_a_stock_data(symbol, retries=3)
DefaultRetries == 3

BatchSymbols == 1..NumSymbols

\* a_stock_symbols[i - 1]
SymbolAt(i) ==
    CASE i = 1 -> <<"600519">>
      [] i = 2 -> <<"300750">>
      [] i = 3 -> <<"601899">>
      [] OTHER -> <<"000001", "SZ">>

\* the answers of the provider tried by the batch
BatchReplies ==
    {Raise("timeout"), Table(<<>>),
     Table(<<ProviderBar(1, 20, "ok"), ProviderBar(2, 21, "zerovol"),
             ProviderBar(3, 22, "ok")>>),
     Table(<<ProviderBar(1, 20, "zerovol")>>)}

\* the frames fetch_a_stock_data(symbol) can end in, over every way the
\* provider can answer its calls
FetchResults ==
    [s \in BatchSymbols |->
        {FetchRunFrom(FetchEntry(SymbolAt(s), DefaultRetries), replies) :
            replies \in [1..DefaultRetries -> BatchReplies]}]

\* a future not yet submitted, and its task
TaskEntry ==
    [future |-> "unsubmitted", pc |-> "fetch", raw |-> None, cleaned |-> None,
     csv |-> <<>>, chart |-> <<>>, plot_error |-> FALSE, exc |-> ""]

Finished(t) == t.future = "finished"

Running(tk) == {s \in DOMAIN tk : tk[s].future = "running"}

Pending(tk) == {s \in DOMAIN tk : tk[s].future = "pending"}

\* the task of symbol s ends with an exception, and with it every future
\* still waiting for a worker
TaskRaisesAbortsQueue(tk, s, where) ==
    [t \in DOMAIN tk |->
        IF t = s \/ tk[t].future = "pending"
        THEN [tk[t] EXCEPT !.future = "finished",
                           !.exc = IF t = s THEN where ELSE "cancelled"]
        ELSE tk[t]]

\* the task of symbol s ends with an exception: the worker stores it in the
\* future of s
TaskRaises(tk, s, where) ==
    [tk EXCEPT ![s].future = "finished", ![s].exc = where]

\* the task of symbol s returns
TaskReturns(tk, s) == [tk EXCEPT ![s].future = "finished"]

\* plot_stock_data of the basic script: the closes it draws.  Nothing is
\* drawn for None, an empty frame, or a frame without a close.
BasicChart(df) ==
    IF IsNone(df) \/ IsEmpty(df) THEN <<>>
    ELSE IF \A i \in 1..Len(df.rows) : IsNaN(df.rows[i].Close) THEN <<>>
    ELSE Column(df.rows, "Close")

\* plot_stock_data of the script: what it draws when nothing fails
Chart(scr, df) ==
    IF scr = "basic" THEN BasicChart(df)
    ELSE IF IsNone(df) \/ IsEmpty(df) THEN <<>>
    ELSE PlotFrame(df).rows

Init ==
    /\ script \in {"basic", "static"}
    /\ main = [pc |-> "submit", next |-> 1, yielded |-> {}, exc |-> FALSE]
    /\ task = [s \in BatchSymbols |-> TaskEntry]
    /\ log = <<>>
    /\ fetch = IdleFetch
    /\ series = IdleSeries
    /\ plot = IdlePlot
    /\ pyplot = IdlePyplot

\* executor.submit(process_single_stock, symbol), symbol by symbol
Submit ==
    /\ main.pc = "submit"
    /\ main.next <= NumSymbols
    /\ task' = [task EXCEPT ![main.next].future = "pending"]
    /\ main' = [main EXCEPT !.next = @ + 1,
                            !.pc = IF main.next = NumSymbols THEN "wait"
                                   ELSE "submit"]
    /\ UNCHANGED <<plot, pyplot, script, log, fetch, series>>

\* a worker thread takes the oldest waiting work item
TaskStart(s) ==
    /\ task[s].future = "pending"
    /\ Cardinality(Running(task)) < max_workers
    /\ \A t \in Pending(task) : s <= t
    /\ task' = [task EXCEPT ![s].future = "running"]
    /\ UNCHANGED <<plot, pyplot, script, main, log, fetch, series>>

\* raw_data = fetch_a_stock_data(symbol)
TaskFetch(s) ==
    /\ task[s].future = "running"
    /\ task[s].pc = "fetch"
    /\ \E f \in FetchResults[s] :
          IF f.pc = "raised"
          THEN task' = TaskRaises(task, s, "fetch")
          ELSE task' = [task EXCEPT ![s].raw = f.ret, ![s].pc = "clean"]
    /\ UNCHANGED <<plot, pyplot, script, main, log, fetch, series>>

\* cleaned_data = clean_data(raw_data)
TaskClean(s) ==
    /\ task[s].future = "running"
    /\ task[s].pc = "clean"
    /\ task' = [task EXCEPT ![s].cleaned = clean_data(task[s].raw),
                            ![s].pc = "save"]
    /\ UNCHANGED <<plot, pyplot, script, main, log, fetch, series>>

\* save_to_csv(cleaned_data, symbol): nothing to write, or the file is
\* written, or to_csv raises
TaskSave(s) ==
    /\ task[s].future = "running"
    /\ task[s].pc = "save"
    /\ \/ /\ SaveToCsv(task[s].cleaned) = <<>>
          /\ task' = [task EXCEPT ![s].pc = "plot"]
       \/ /\ SaveToCsv(task[s].cleaned) # <<>>
          /\ task' = [task EXCEPT ![s].csv = SaveToCsv(task[s].cleaned),
                                  ![s].pc = "plot"]
       \/ /\ SaveToCsv(task[s].cleaned) # <<>>
          /\ task' = TaskRaises(task, s, "save")
    /\ UNCHANGED <<plot, pyplot, script, main, log, fetch, series>>

\* plot_stock_data(cleaned_data, symbol), the last call of the task: nothing
\* to draw, or the chart is drawn, or a failure is caught and logged inside
\* plot_stock_data (the static script wraps all of it in try, the basic
\* script its font lookup), or, in the basic script, the drawing that
\* follows the try block fails (font_prop unbound when no Hei font was
\* found, savefig) and the exception leaves the task.
TaskPlot(s) ==
    /\ task[s].future = "running"
    /\ task[s].pc = "plot"
    /\ \/ /\ Chart(script, task[s].cleaned) = <<>>
          /\ task' = TaskReturns(task, s)
       \/ /\ Chart(script, task[s].cleaned) # <<>>
          /\ task' = TaskReturns(
                        [task EXCEPT ![s].chart = Chart(script, task[s].cleaned)], s)
       \/ /\ Chart(script, task[s].cleaned) # <<>>
          /\ task' = TaskReturns([task EXCEPT ![s].plot_error = TRUE], s)
       \/ /\ Chart(script, task[s].cleaned) # <<>>
          /\ script = "basic"
          /\ task' = TaskRaises(task, s, "plot")
    /\ UNCHANGED <<plot, pyplot, script, main, log, fetch, series>>

\* future.result() inside try, were there no except clause: the exception of
\* the task leaves the for loop
FutureResultUncaught(m, lg, s, exc) ==
    IF exc = "" THEN <<[m EXCEPT !.yielded = @ \cup {s}], lg>>
    ELSE <<[m EXCEPT !.yielded = @ \cup {s}, !.pc = "exit", !.exc = TRUE], lg>>

\* the body of the as_completed loop for the future of s: future.result()
\* re-raises the exception of the task, the except clause logs it
FutureResult(m, lg, s, exc) ==
    IF exc = "" THEN <<[m EXCEPT !.yielded = @ \cup {s}], lg>>
    ELSE <<[m EXCEPT !.yielded = @ \cup {s}],
           Append(lg, [level |-> "ERROR", symbol |-> s, msg |-> exc])>>

\* as_completed yields a finished future it has not yielded yet
Yield(s) ==
    /\ main.pc = "wait"
    /\ s \notin main.yielded
    /\ Finished(task[s])
    /\ main' = FutureResult(main, log, s, task[s].exc)[1]
    /\ log' = FutureResult(main, log, s, task[s].exc)[2]
    /\ UNCHANGED <<plot, pyplot, script, task, fetch, series>>

\* as_completed is exhausted: the for loop ends
LoopEnd ==
    /\ main.pc = "wait"
    /\ main.yielded = BatchSymbols
    /\ main' = [main EXCEPT !.pc = "exit"]
    /\ UNCHANGED <<plot, pyplot, script, task, log, fetch, series>>

\* the with block is left: shutdown(wait=True) joins the workers, then the
\* function returns, or the exception that left the loop goes on
Exit ==
    /\ main.pc = "exit"
    /\ \A s \in BatchSymbols : Finished(task[s])
    /\ main' = [main EXCEPT !.pc = IF main.exc THEN "raised" ELSE "returned"]
    /\ UNCHANGED <<plot, pyplot, script, task, log, fetch, series>>

MainNext == Submit \/ (\E s \in BatchSymbols : Yield(s)) \/ LoopEnd \/ Exit

TaskNext(s) ==
    TaskStart(s) \/ TaskFetch(s) \/ TaskClean(s) \/ TaskSave(s) \/ TaskPlot(s)

Next == MainNext \/ (\E s \in BatchSymbols : TaskNext(s))

Spec == Init /\ [][Next]_vars

\* the main thread is not held up for ever; nothing is assumed of the tasks
\* (a provider call has no timeout)
FairSpec == Spec /\ WF_vars(MainNext)

----------------------------------------------------------------------------
(* SpecPlot: the plot_stock_data calls of the batch, one per symbol, each   *)
(* in its worker thread (three symbols, five workers: all run at once).     *)
(* Spec takes the chart stage as one step of the task; here it is the       *)
(* sequence of its pyplot calls, and the threads interleave between calls.  *)
(* matplotlib.pyplot is one module per process: it holds the open figures  *)
(* in activation order, the last being the current figure, and rcParams.    *)
(* A Figure object lives on after it is closed, for who holds it.           *)

\* what a call drew, and for which symbol's call
Mark(s, what) == [by |-> s, what |-> what]

\* a new Figure, made by the call of symbol s
Figure(s) == [owner |-> s, marks |-> {}]

\* pyplot at import: no figure; hei tells whether findSystemFonts() lists a
\* font with "Hei" in its path on this machine
PyplotEntry(hei) ==
    [figs |-> <<>>, open |-> <<>>, rc |-> "default", hei |-> hei]

\* plt.figure(): a new figure, opened and made current
NewFigure(py, s) ==
    [py EXCEPT !.figs = Append(@, Figure(s)),
               !.open = Append(@, Len(py.figs) + 1)]

\* plt.gcf(): the current figure, a new one if none is open
Gcf(py, s) == IF py.open = <<>> THEN NewFigure(py, s) ELSE py

Active(py) == Last(py.open)

\* a drawing call on the Figure object id
Draw(py, id, m) == [py EXCEPT !.figs[id].marks = @ \cup {m}]

\* a pyplot drawing call (plt.plot, plt.title, plt.xticks, ...): it draws on
\* the current axes of the current figure
DrawCurrent(py, s, what) ==
    LET q == Gcf(py, s) IN Draw(q, Active(q), Mark(s, what))

\* plt.close(): the current figure is closed, the one activated before it
\* becomes current
CloseCurrent(py) ==
    IF py.open = <<>> THEN py
    ELSE [py EXCEPT !.open = SubSeq(@, 1, Len(@) - 1)]

\* plt.close(fig)
CloseFig(py, id) == [py EXCEPT !.open = SelectSeq(@, LAMBDA n : n # id)]

\* plt.close('all')
CloseAll(py) == [py EXCEPT !.open = <<>>]

\* the frame of a plot_stock_data(df, symbol) call.  fig is the figure
\* plt.figure() returned (the static script binds it to fig, the basic script
\* drops it), font_prop whether that name is bound, saved the picture savefig
\* wrote (none, or one figure as it was then)
PlotEntry(df) ==
    [pc |-> "enter", df |-> df, fig |-> 0, font_prop |-> FALSE,
     saved |-> <<>>, plot_error |-> FALSE, exc |-> ""]

\* the cleaned frames handed to the chart stage
PlotInputs == {None, DF(PatternSeries("up", 2, 0, "ok"))}

PlotInit ==
    /\ script \in {"basic", "static"}
    /\ plot \in [BatchSymbols -> {PlotEntry(df) : df \in PlotInputs}]
    /\ \E hei \in BOOLEAN :
          /\ script = "static" => hei
          /\ pyplot = PyplotEntry(hei)
    /\ fetch = IdleFetch
    /\ series = IdleSeries
    /\ main = IdleMain
    /\ task = <<>>
    /\ log = <<>>

\* the guards at the top: nothing to draw, a warning and return
PlotEnter(s) ==
    /\ plot[s].pc = "enter"
    /\ plot' = [plot EXCEPT ![s].pc =
                   IF Chart(script, plot[s].df) = <<>> THEN "returned"
                   ELSE IF script = "basic" THEN "font" ELSE "style"]
    /\ UNCHANGED <<fetch, series, script, main, task, log, pyplot>>

\* basic script, the try block: the font is looked up and rcParams written,
\* font_prop bound only if a Hei font was found; or the lookup raises, which
\* is logged, and the call returns
PlotFont(s) ==
    /\ script = "basic"
    /\ plot[s].pc = "font"
    /\ \/ /\ pyplot' = [pyplot EXCEPT !.rc = IF pyplot.hei THEN "Hei"
                                             ELSE "Microsoft YaHei"]
          /\ plot' = [plot EXCEPT ![s].pc = "figure",
                                  ![s].font_prop = pyplot.hei]
       \/ /\ plot' = [plot EXCEPT ![s].pc = "returned",
                                  ![s].plot_error = TRUE]
          /\ UNCHANGED pyplot
    /\ UNCHANGED <<fetch, series, script, main, task, log>>

\* static script: plt.style.use('ggplot') rewrites rcParams
PlotStyle(s) ==
    /\ script = "static"
    /\ plot[s].pc = "style"
    /\ pyplot' = [pyplot EXCEPT !.rc = "ggplot"]
    /\ plot' = [plot EXCEPT ![s].pc = "figure"]
    /\ UNCHANGED <<fetch, series, script, main, task, log>>

\* plt.figure(...)
PlotFigure(s) ==
    /\ plot[s].pc = "figure"
    /\ pyplot' = NewFigure(pyplot, s)
    /\ plot' = [plot EXCEPT ![s].fig = Len(pyplot.figs) + 1,
                            ![s].pc = IF script = "basic" THEN "line"
                                      ELSE "panels"]
    /\ UNCHANGED <<fetch, series, script, main, task, log>>

\* basic script: plt.plot(df.index, df["Close"], ...)
PlotLine(s) ==
    /\ script = "basic"
    /\ plot[s].pc = "line"
    /\ pyplot' = DrawCurrent(pyplot, s, "line")
    /\ plot' = [plot EXCEPT ![s].pc = "labels"]
    /\ UNCHANGED <<fetch, series, script, main, task, log>>

\* basic script: plt.title, plt.xlabel, plt.ylabel, plt.legend, each given
\* font_prop: a NameError that leaves the call if font_prop is unbound
PlotLabels(s) ==
    /\ script = "basic"
    /\ plot[s].pc = "labels"
    /\ \/ /\ plot[s].font_prop
          /\ pyplot' = DrawCurrent(pyplot, s, "labels")
          /\ plot' = [plot EXCEPT ![s].pc = "save"]
       \/ /\ ~plot[s].font_prop
          /\ plot' = [plot EXCEPT ![s].pc = "raised", ![s].exc = "NameError"]
          /\ UNCHANGED pyplot
    /\ UNCHANGED <<fetch, series, script, main, task, log>>

\* static script: the four axes are added to fig and the panels are drawn on
\* them (fig.add_subplot, ax.plot, ax.bar, ...), or one of the calls raises
PlotPanels(s) ==
    /\ script = "static"
    /\ plot[s].pc = "panels"
    /\ \/ /\ pyplot' = Draw(pyplot, plot[s].fig, Mark(s, "panels"))
          /\ plot' = [plot EXCEPT ![s].pc = "ticks"]
       \/ /\ plot' = [plot EXCEPT ![s].pc = "except"]
          /\ UNCHANGED pyplot
    /\ UNCHANGED <<fetch, series, script, main, task, log>>

\* static script: plt.xticks(rotation=45, ha='right')
PlotTicks(s) ==
    /\ script = "static"
    /\ plot[s].pc = "ticks"
    /\ pyplot' = DrawCurrent(pyplot, s, "xticks")
    /\ plot' = [plot EXCEPT ![s].pc = "save"]
    /\ UNCHANGED <<fetch, series, script, main, task, log>>

\* basic script: plt.savefig(plot_path) writes the current figure; static
\* script: fig.savefig(plot_path) writes fig.  The write may fail: the
\* exception leaves the basic call, the static call handles it.
PlotSavefig(s) ==
    /\ plot[s].pc = "save"
    /\ \/ /\ script = "basic"
          /\ LET q == Gcf(pyplot, s)
             IN  /\ pyplot' = q
                 /\ plot' = [plot EXCEPT ![s].saved = <<q.figs[Active(q)]>>,
                                         ![s].pc = "close"]
       \/ /\ script = "static"
          /\ plot' = [plot EXCEPT ![s].saved = <<pyplot.figs[plot[s].fig]>>,
                                  ![s].pc = "close"]
          /\ UNCHANGED pyplot
       \/ /\ plot' = [plot EXCEPT ![s].pc = IF script = "basic" THEN "raised"
                                            ELSE "except",
                                  ![s].exc = IF script = "basic" THEN "savefig"
                                             ELSE ""]
          /\ UNCHANGED pyplot
    /\ UNCHANGED <<fetch, series, script, main, task, log>>

\* basic script: plt.close(); static script: plt.close(fig)
PlotClose(s) ==
    /\ plot[s].pc = "close"
    /\ pyplot' = IF script = "basic" THEN CloseCurrent(pyplot)
                 ELSE CloseFig(pyplot, plot[s].fig)
    /\ plot' = [plot EXCEPT ![s].pc = "returned"]
    /\ UNCHANGED <<fetch, series, script, main, task, log>>

\* static script, the except clause: the error is logged, plt.close('all')
PlotExcept(s) ==
    /\ script = "static"
    /\ plot[s].pc = "except"
    /\ pyplot' = CloseAll(pyplot)
    /\ plot' = [plot EXCEPT ![s].pc = "returned", ![s].plot_error = TRUE]
    /\ UNCHANGED <<fetch, series, script, main, task, log>>

PlotNext(s) ==
    \/ PlotEnter(s) \/ PlotFont(s) \/ PlotStyle(s) \/ PlotFigure(s)
    \/ PlotLine(s) \/ PlotLabels(s) \/ PlotPanels(s) \/ PlotTicks(s)
    \/ PlotSavefig(s) \/ PlotClose(s) \/ PlotExcept(s)

SpecPlot == PlotInit /\ [][\E s \in BatchSymbols : PlotNext(s)]_vars

----------------------------------------------------------------------------
(* Claims about fetch_a_stock_data, checked under SpecFetch *)

Count(s, Test(_)) == Len(SelectSeq(s, Test))

AllRaised(calls) == \A i \in 1..Len(calls) : calls[i].kind = "raise"

HasRows(reply) == reply.kind = "table" /\ Len(reply.rows) > 0

NoRows(reply) == reply.kind = "table" /\ Len(reply.rows) = 0

\* C1: with retries >= 1 and every provider call raising, the call makes
\* exactly retries provider calls, one after the other, and then returns the
\* failure value None; the exception never leaves the function.
C1_AllRaiseReturnsFailure ==
    (fetch.retries >= 1 /\ AllRaised(fetch.calls)) =>
        /\ fetch.pc # "raised"
        /\ fetch.pc = "returned" =>
              Len(fetch.calls) = fetch.retries /\ IsNone(fetch.ret)
        /\ fetch.pc = "loop" =>
              Len(fetch.calls) < fetch.retries /\ fetch.attempt = Len(fetch.calls)

\* C1 happens: three calls, all raising, and the call has returned
C1_Witness ==
    /\ fetch.pc = "returned"
    /\ fetch.retries = 3
    /\ Len(fetch.calls) = 3
    /\ AllRaised(fetch.calls)
    /\ IsNone(fetch.ret)

\* C2: when the first k calls raise (k < retries) and call k+1 answers rows,
\* the call returns exactly the rows of call k+1 under the canonical column
\* names, no call follows it, and the log holds k warnings, one info record
\* and no error record.
C2_SuccessAfterRetries ==
    /\ \A i \in 1..Len(fetch.calls) :
           HasRows(fetch.calls[i]) =>
               i = Len(fetch.calls) /\ fetch.pc = "returned"
    /\ (Len(fetch.calls) > 0 /\ HasRows(Last(fetch.calls))
         /\ AllRaised(SubSeq(fetch.calls, 1, Len(fetch.calls) - 1))) =>
           LET k == Len(fetch.calls) - 1
               t == Last(fetch.calls).rows
           IN  /\ k < fetch.retries
               /\ fetch.ret.kind = "df"
               /\ Len(fetch.ret.rows) = Len(t)
               /\ \A i \in 1..Len(t) :
                      /\ fetch.ret.rows[i].Date = t[i].riqi
                      /\ fetch.ret.rows[i].Open = t[i].kaipan
                      /\ fetch.ret.rows[i].Close = t[i].shoupan
                      /\ fetch.ret.rows[i].High = t[i].zuigao
                      /\ fetch.ret.rows[i].Low = t[i].zuidi
                      /\ fetch.ret.rows[i].Volume = t[i].chengjiaoliang
               /\ Count(fetch.log, LAMBDA e : e.level = "WARNING") = k
               /\ Count(fetch.log, LAMBDA e : e.level = "INFO") = 1
               /\ Count(fetch.log, LAMBDA e : e.level = "ERROR") = 0

\* C2 happens: raise, raise, rows with retries = 3, and two warnings
C2_Witness ==
    /\ fetch.pc = "returned"
    /\ fetch.retries = 3
    /\ Len(fetch.calls) = 3
    /\ fetch.calls[1].kind = "raise"
    /\ fetch.calls[2].kind = "raise"
    /\ HasRows(fetch.calls[3])
    /\ fetch.ret = DF(Rename(fetch.calls[3].rows))
    /\ Count(fetch.log, LAMBDA e : e.level = "WARNING") = 2

\* C3: a provider call that answers no row ends the call at once with None:
\* it is the last provider call, whatever number of attempts remains.
C3_EmptyReturnsAtOnce ==
    \A i \in 1..Len(fetch.calls) :
        NoRows(fetch.calls[i]) =>
            /\ i = Len(fetch.calls)
            /\ fetch.pc = "returned"
            /\ IsNone(fetch.ret)

\* C3 happens: no row on the first of three attempts, and the call returned
C3_Witness ==
    /\ fetch.retries = 3
    /\ Len(fetch.calls) = 1
    /\ NoRows(fetch.calls[1])
    /\ fetch.pc = "returned"

\* what the call returns when the provider answers a table without rows
EmptyValue ==
    FetchRunFrom(FetchEntry(<<"600519">>, 1), <<Table(<<>>)>>).ret

\* the call returned after the provider answered no row
ReturnedEmpty ==
    fetch.pc = "returned" /\ Len(fetch.calls) > 0 /\ NoRows(Last(fetch.calls))

\* the call returned after its last attempt raised
ReturnedFailure ==
    /\ fetch.pc = "returned"
    /\ Len(fetch.calls) > 0
    /\ Last(fetch.calls).kind = "raise"

----------------------------------------------------------------------------
(* SpecSeries: one series through a pipeline, in one thread.               *)
(* "static": clean_data, save_to_csv, plot_stock_data on what the fetch    *)
(* returned, as process_single_stock calls them (the sinks do not fail     *)
(* here).  "interactive": get_stock_data on what the provider answered.    *)

SeriesEntry(pipeline, input) ==
    [pipeline |-> pipeline, pc |-> "start", input |-> input,
     cleaned |-> None, warned |-> FALSE, csv |-> <<>>, frame |-> None]

Pipelines == {"static", "interactive"}

\* the rows as the pipeline gets them: the frame the fetch returned, or the
\* table the provider answered
InputFor(pipeline, rows) ==
    IF pipeline = "static" THEN DF(rows) ELSE Table(ToProvider(rows))

\* the series tried: every pattern at every length up to MaxBars, whole or
\* with one bar broken; every free-form series of up to MaxRows rows; and
\* the fetch that returned None, the provider that raised
SeriesInit ==
    /\ \/ \E pl \in Pipelines, p \in Patterns, n \in 0..MaxBars :
              series = SeriesEntry(pl, InputFor(pl, PatternSeries(p, n, 0, "ok")))
       \/ \E pl \in Pipelines, p \in Patterns, n \in 1..MaxBars :
              \E k \in 1..n, kind \in DefectKinds :
                  series = SeriesEntry(pl, InputFor(pl, PatternSeries(p, n, k, kind)))
       \/ \E pl \in Pipelines, n \in 1..MaxRows, order \in DateOrders :
              \E kinds \in [1..n -> RowKinds] :
                  series = SeriesEntry(pl, InputFor(pl, FreeSeries(kinds, order)))
       \/ series = SeriesEntry("static", None)
       \/ series = SeriesEntry("interactive", Raise("timeout"))
    /\ fetch = IdleFetch
    /\ script = "none"
    /\ main = IdleMain
    /\ task = <<>>
    /\ log = <<>>
    /\ plot = IdlePlot
    /\ pyplot = IdlePyplot

\* cleaned_data = clean_data(raw_data)
SeriesClean ==
    /\ series.pipeline = "static"
    /\ series.pc = "start"
    /\ series' = [series EXCEPT !.pc = "cleaned",
                                !.cleaned = clean_data(series.input),
                                !.warned = CleanWarns(series.input)]
    /\ UNCHANGED <<plot, pyplot, fetch, script, main, task, log>>

\* save_to_csv(cleaned_data, symbol)
SeriesSave ==
    /\ series.pipeline = "static"
    /\ series.pc = "cleaned"
    /\ series' = [series EXCEPT !.pc = "saved",
                                !.csv = SaveToCsv(series.cleaned)]
    /\ UNCHANGED <<plot, pyplot, fetch, script, main, task, log>>

\* plot_stock_data(cleaned_data, symbol)
SeriesPlot ==
    /\ series.pipeline = "static"
    /\ series.pc = "saved"
    /\ series' = [series EXCEPT !.pc = "done",
                                !.frame = PlotFrame(series.cleaned)]
    /\ UNCHANGED <<plot, pyplot, fetch, script, main, task, log>>

\* df = get_stock_data(symbol, start_date, end_date)
SeriesGet ==
    /\ series.pipeline = "interactive"
    /\ series.pc = "start"
    /\ series' = [series EXCEPT !.pc = "done",
                                !.frame = GetStockData(series.input)]
    /\ UNCHANGED <<plot, pyplot, fetch, script, main, task, log>>

SeriesNext == SeriesClean \/ SeriesSave \/ SeriesPlot \/ SeriesGet

SpecSeries == SeriesInit /\ [][SeriesNext]_vars

----------------------------------------------------------------------------
(* Claims about clean_data and the indicators, checked under SpecSeries *)

\* a number above zero (NaN and the infinities are not)
Positive(x) == x[2] > 0 /\ x[1] > 0

\* a row the three cleaning rules keep, stated on the row alone
ValidRow(r) ==
    /\ ~(r.Open = NaN /\ r.High = NaN /\ r.Low = NaN /\ r.Close = NaN
         /\ r.Volume = NaN)
    /\ Positive(r.Volume)
    /\ Positive(r.Open) /\ Positive(r.High) /\ Positive(r.Low)
    /\ Positive(r.Close)

ValidAt(rows) == {i \in 1..Len(rows) : ValidRow(rows[i])}

\* the valid rows among the first i rows, in their order
RECURSIVE ValidUpTo(_, _)
ValidUpTo(rows, i) ==
    IF i = 0 THEN <<>>
    ELSE IF ValidRow(rows[i]) THEN Append(ValidUpTo(rows, i - 1), rows[i])
    ELSE ValidUpTo(rows, i - 1)

\* the valid rows of rows, in their order
Survivors(rows) == ValidUpTo(rows, Len(rows))

RECURSIVE SumCells(_)
SumCells(xs) == IF xs = <<>> THEN Num(0) ELSE FAdd(Head(xs), SumCells(Tail(xs)))

\* the mean of the n values of xs ending at position t; NaN when fewer than n
\* values exist up to t
MeanEndingAt(xs, n, t) ==
    IF t < n THEN NaN
    ELSE FDiv(SumCells(SubSeq(xs, t - n + 1, t)), Num(n))

StaticAfterClean == series.pipeline = "static" /\ series.pc # "start"
StaticDone == series.pipeline = "static" /\ series.pc = "done"
InteractiveDone == series.pipeline = "interactive" /\ series.pc = "done"

DatesIncrease(rows) ==
    \A i \in 1..Len(rows) - 1 : rows[i].Date < rows[i + 1].Date

\* rows out is rows in with some rows removed, the others in their order
RECURSIVE IsSubsequence(_, _)
IsSubsequence(out, in) ==
    IF out = <<>> THEN TRUE
    ELSE IF in = <<>> THEN FALSE
    ELSE IF Head(out) = Head(in) THEN IsSubsequence(Tail(out), Tail(in))
    ELSE IsSubsequence(out, Tail(in))

\* C7: a series whose dates are duplicated or out of order is not cleaned
\* into a series (a rejection, read at its widest: clean_data returns no
\* series for it), and clean_data keeps the rows it keeps in their order.
C7_DisorderedSeriesRejected ==
    StaticAfterClean =>
        /\ (series.input.kind = "df" /\ ~DatesIncrease(series.input.rows)) =>
               series.cleaned.kind # "df"
        /\ series.cleaned.kind = "df" =>
               IsSubsequence(series.cleaned.rows, series.input.rows)

\* a derived column of the row holds no number
DerivedUndefined(r) ==
    \/ r.MA5 = NaN \/ r.MA10 = NaN \/ r.MA20 = NaN
    \/ ~r.MACD \/ ~r.Signal \/ ~r.Hist
    \/ r.RSI = NaN

\* C8 as stated: in both pipelines the frame handed on (returned by
\* get_stock_data, drawn by plot_stock_data) has no row with an undefined
\* derived value.
C8_NoUndefinedInEitherPipeline ==
    (series.pc = "done" /\ series.frame.kind = "df") =>
        \A j \in 1..Len(series.frame.rows) :
            ~DerivedUndefined(series.frame.rows[j])

\* C8 amended: the frame get_stock_data returns has no row with an undefined
\* derived value and none of the first 19 bars of the answer (the MA20
\* warm-up); the frame plot_stock_data of the static script draws is not
\* trimmed: it has every row of the cleaned series, the first one with an
\* undefined RSI.
C8_InteractiveFrameIsTrimmed ==
    /\ InteractiveDone =>
          /\ \A j \in 1..Len(series.frame.rows) :
                 ~DerivedUndefined(series.frame.rows[j])
          /\ series.input.kind = "table" =>
                 /\ IsSubsequence(
                        [j \in 1..Len(series.frame.rows) |->
                            [Date |-> series.frame.rows[j].Date,
                             Close |-> series.frame.rows[j].Close]],
                        [i \in 1..Len(series.input.rows) |->
                            [Date |-> series.input.rows[i].riqi,
                             Close |-> series.input.rows[i].shoupan]])
                 /\ Len(series.frame.rows) > 0 =>
                        Len(series.frame.rows) <= Len(series.input.rows) - 19
    /\ (StaticDone /\ series.cleaned.kind = "df") =>
          /\ Len(series.frame.rows) = Len(series.cleaned.rows)
          /\ series.frame.rows[1].RSI = NaN

\* C8 happens: 21 rising bars answered, get_stock_data returns the last two
C8_Witness ==
    /\ InteractiveDone
    /\ series.input.kind = "table"
    /\ Len(series.input.rows) = 21
    /\ Len(series.frame.rows) = 2
    /\ series.frame.rows[1].Date = 20
    /\ series.frame.rows[2].Date = 21

\* the position of a zero-volume row that lies between valid rows, all other
\* rows being valid
ZeroVolumeBetween(rows) ==
    {k \in 2..Len(rows) - 1 :
        /\ rows[k].Volume = Num(0)
        /\ \A i \in 1..Len(rows) : i # k => ValidRow(rows[i])}

\* C9: in the static pipeline a zero-volume row between valid rows is absent
\* from the cleaned series, which has one row less and no placeholder, and
\* MA5 at each surviving row is the mean of the five most recent surviving
\* closes (undefined for the first four surviving rows).
C9_ZeroVolumeRowLeavesNoGap ==
    (StaticDone /\ series.input.kind = "df"
      /\ ZeroVolumeBetween(series.input.rows) # {}) =>
        LET in == series.input.rows
            surv == Survivors(in)
            f == series.frame.rows
        IN  /\ Len(series.cleaned.rows) = Len(in) - 1
            /\ \A k \in ZeroVolumeBetween(in) :
                   \A j \in 1..Len(series.cleaned.rows) :
                       series.cleaned.rows[j] # in[k]
            /\ Len(f) = Len(in) - 1
            /\ \A j \in 1..Len(f) :
                   /\ f[j].Date = surv[j].Date
                   /\ f[j].Close = surv[j].Close
                   /\ f[j].Volume # Num(0)
                   /\ f[j].MA5 = MeanEndingAt(Column(surv, "Close"), 5, j)

\* C9 happens: the zero-volume bar is the fourth of at least seven, so the
\* MA5 windows of the surviving rows 5, 6, ... reach across its place
C9_Witness ==
    /\ StaticDone
    /\ series.input.kind = "df"
    /\ Len(series.input.rows) >= 7
    /\ ZeroVolumeBetween(series.input.rows) = {4}
    /\ Len(series.frame.rows) = Len(series.input.rows) - 1
    /\ series.frame.rows[5].Date = 6
    /\ series.frame.rows[5].MA5 # NaN
    /\ series.frame.rows[5].MA5 # series.frame.rows[6].MA5

\* the provider rows sit on the dates 1, 2, ..., so a date is a bar number
DatesArePositions(rows) == \A i \in 1..Len(rows) : rows[i].riqi = i

\* C10: for n in {5, 10, 20}, MAn at bar t is the mean of the n closes ending
\* at t when t has n bars, and undefined before: on every row the static
\* script draws, and on every row get_stock_data returns (there a date is the
\* bar number of the row in the answer).  So a constant close c has MA5 = c
\* from the fifth bar on and undefined before, and the 15-bar scenario has
\* MA5 = 16 at its last bar.
C10_MovingAverageIsWindowMean ==
    /\ (StaticDone /\ series.frame.kind = "df") =>
          LET f == series.frame.rows
              close == Column(f, "Close")
          IN  /\ \A t \in 1..Len(f) :
                     /\ f[t].MA5 = MeanEndingAt(close, 5, t)
                     /\ f[t].MA10 = MeanEndingAt(close, 10, t)
                     /\ f[t].MA20 = MeanEndingAt(close, 20, t)
                     /\ (t < 5) = (f[t].MA5 = NaN)
                     /\ (t < 10) = (f[t].MA10 = NaN)
                     /\ (t < 20) = (f[t].MA20 = NaN)
              /\ (\A t \in 1..Len(f) : close[t] = Num(10)) =>
                     \A t \in 1..Len(f) :
                         f[t].MA5 = IF t >= 5 THEN Num(10) ELSE NaN
              /\ close = [t \in 1..15 |-> Num(Scenario[t])] =>
                     f[15].MA5 = Num(16)
    /\ (InteractiveDone /\ series.input.kind = "table"
         /\ DatesArePositions(series.input.rows)) =>
          LET f == series.frame.rows
              close == Column(Rename(series.input.rows), "Close")
          IN  \A j \in 1..Len(f) :
                  /\ f[j].MA5 = MeanEndingAt(close, 5, f[j].Date)
                  /\ f[j].MA10 = MeanEndingAt(close, 10, f[j].Date)
                  /\ f[j].MA20 = MeanEndingAt(close, 20, f[j].Date)

\* C10 happens: the 15-bar scenario went through the static script and its
\* last bar has MA5 = 16, its fourth bar no MA5
C10_Witness ==
    /\ StaticDone
    /\ series.frame.kind = "df"
    /\ Column(series.frame.rows, "Close") = [t \in 1..15 |-> Num(Scenario[t])]
    /\ series.frame.rows[15].MA5 = Num(16)
    /\ series.frame.rows[4].MA5 = NaN
    /\ series.frame.rows[5].MA5 = Frac(54, 5)

\* the 14 deltas delta[t-13..t] exist and are numbers: bar t has 14 bars
\* before it and none of the 15 closes is missing
GenuineWindow(delta, t) ==
    t >= 15 /\ \A u \in (t - 13)..t : ~IsNaN(delta[u])

RisingWindow(delta, t) ==
    GenuineWindow(delta, t) /\ \A u \in (t - 13)..t : Gt0(delta[u])

FallingWindow(delta, t) ==
    GenuineWindow(delta, t) /\ \A u \in (t - 13)..t : Lt0(delta[u])

\* the RSI column against the closes it was computed from: 100 where the close
\* rose over the whole window, 0 where it fell, and a value only where the
\* window holds 14 genuine deltas.  at[j] is the bar of row j of the frame.
RSIAsClaimed(f, close, at) ==
    LET delta == Diff(close)
    IN  \A j \in 1..Len(f) :
            /\ RisingWindow(delta, at[j]) => f[j].RSI = Num(100)
            /\ FallingWindow(delta, at[j]) => f[j].RSI = Num(0)
            /\ ~IsNaN(f[j].RSI) => GenuineWindow(delta, at[j])

\* C11: where the close rose strictly over the 14 deltas of the window, RSI
\* is 100; where it fell strictly, RSI is 0; and a bar has an RSI value only
\* if it has 14 bars before it and the 14 deltas delta[t-13..t] are all
\* numbers.  On every row the static script draws and on every row
\* get_stock_data returns.
C11_RSIOnlyFromFourteenDeltas ==
    /\ (StaticDone /\ series.frame.kind = "df") =>
          LET f == series.frame.rows
          IN  RSIAsClaimed(f, Column(f, "Close"), [j \in 1..Len(f) |-> j])
    /\ (InteractiveDone /\ series.input.kind = "table"
         /\ DatesArePositions(series.input.rows)) =>
          LET f == series.frame.rows
          IN  RSIAsClaimed(f, Column(Rename(series.input.rows), "Close"),
                           [j \in 1..Len(f) |-> f[j].Date])

----------------------------------------------------------------------------
(* Claims about batch_process_a_stocks, checked under Spec and FairSpec *)

Failed(t) == t.exc # ""

\* what a task that returned must hold, given what its own fetch returned
OwnOutcome(t) ==
    /\ t.cleaned = clean_data(t.raw)
    /\ t.csv = SaveToCsv(t.cleaned)
    /\ \/ t.chart = Chart(script, t.cleaned) /\ ~t.plot_error
       \/ t.plot_error /\ t.chart = <<>> /\ t.csv # <<>>

\* the records of the boundary that name symbol s
RecordsOf(s) == SelectSeq(log, LAMBDA e : e.symbol = s)

C4_State ==
    /\ \A s \in BatchSymbols :
           /\ Failed(task[s]) =>
                  /\ Finished(task[s])
                  /\ task[s].exc \in {"save", "plot"}
                  /\ task[s].cleaned = clean_data(task[s].raw)
                  /\ task[s].cleaned.kind = "df"
           /\ (Finished(task[s]) /\ ~Failed(task[s])) => OwnOutcome(task[s])
           /\ RecordsOf(s) =
                  IF s \in main.yielded /\ Failed(task[s])
                  THEN <<[level |-> "ERROR", symbol |-> s, msg |-> task[s].exc]>>
                  ELSE <<>>
    /\ main.pc = "returned" =>
           /\ main.yielded = BatchSymbols
           /\ \A s \in BatchSymbols : Finished(task[s])

C4_Step ==
    \A s \in BatchSymbols :
        (~Failed(task[s]) /\ Failed(task'[s])) =>
            /\ \A t \in BatchSymbols \ {s} : task'[t] = task[t]
            /\ main' = main
            /\ log' = log

AllFinished == \A s \in BatchSymbols : Finished(task[s])

\* C5: the batch never raises, it has returned only when every task has
\* finished, and once every task has finished it does return (the main
\* thread being scheduled), whichever tasks failed.
C5_BatchJoinsAndReturns ==
    /\ [](main.pc # "raised" /\ ~main.exc)
    /\ [](main.pc = "returned" => AllFinished)
    /\ (AllFinished ~> main.pc = "returned")

\* C5 happens: every task failed and the batch returned
C5_Witness ==
    /\ main.pc = "returned"
    /\ \A s \in BatchSymbols : Failed(task[s])
    /\ Len(log) = NumSymbols

----------------------------------------------------------------------------
(* Claims about the chart stages running together, checked under SpecPlot *)

\* the call of s has made its figure and has not yet saved it: it is still
\* drawing or saving
StillDrawing(s) ==
    plot[s].pc \in {"line", "labels", "panels", "ticks", "save"}

\* what the call of s draws on its figure when it runs alone
OwnMarks(s) ==
    IF script = "basic" THEN {Mark(s, "line"), Mark(s, "labels")}
    ELSE {Mark(s, "panels"), Mark(s, "xticks")}

\* C13: whatever the interleaving of the chart stages, while the call of a
\* symbol is drawing or saving, its figure is open (no other call closed it)
\* and carries only what that call drew (no other call drew on it), and the
\* picture it saves is its own figure with its own drawing, all of it.
C13_NoCallTouchesAnothersFigure ==
    \A s \in BatchSymbols :
        /\ StillDrawing(s) =>
              /\ \E i \in 1..Len(pyplot.open) : pyplot.open[i] = plot[s].fig
              /\ \A m \in pyplot.figs[plot[s].fig].marks : m.by = s
        /\ plot[s].saved # <<>> =>
              /\ plot[s].saved[1].owner = s
              /\ plot[s].saved[1].marks = OwnMarks(s)

====
